---------------------------- MODULE Spec2Model ----------------------------
(***************************************************************************)
(* Depth-limited decision tree induction (src/tree.py).                    *)
(*                                                                         *)
(* learn_decision_tree is modelled as a machine with an explicit call      *)
(* stack: one frame per invocation of decision_tree_learning, one action   *)
(* per branch of its if/elif chain and one for each pass of its loop.      *)
(* Python lists are sequences; Python's 0-based indices are kept, so the   *)
(* element at index i of a list l is l[i + 1].                             *)
(***************************************************************************)
EXTENDS Integers, Sequences, FiniteSets, TLC

\* ------------------------------------------------------------------ bounds
MaxExamples == 3      \* rows of a generated csv file
MaxFeatures == 2      \* length of feature_names
MaxDepth    == 2      \* largest depth_limit
MaxStack    == 5      \* the interpreter's recursion limit

\* ------------------------------------------------------------------ inputs
\* Header and rows of the generated csv files: five voting records on two
\* votes, among them a "Present" vote with a capitalised party and an
\* "Absent" vote.
VoteAttributes == <<"vote0", "vote1", "class">>

VoteRows ==
    { <<"Yea", "Yea", "republican">>,
      <<"Yea", "Nay", "democrat">>,
      <<"Nay", "Yea", "democrat">>,
      <<"Present", "Nay", "Republican">>,
      <<"Nay", "Absent", "democrat">> }

\* The 4-example file of the single-feature scenario.
ScenarioDataSet ==
    [ attributes |-> <<"voteX", "class">>,
      examples   |-> << <<"Yea", "republican">>, <<"Yea", "democrat">>,
                        <<"Nay", "republican">>, <<"Nay", "democrat">> >> ]

SeqsUpTo(S, n) == UNION { [1..k -> S] : k \in 0..n }

\* DataSet.__init__: attributes is the header row, examples the other rows.
DataSets ==
    { [attributes |-> VoteAttributes, examples |-> exs] :
          exs \in SeqsUpTo(VoteRows, MaxExamples) }
    \cup { ScenarioDataSet }

Range(s) == { s[i] : i \in 1..Len(s) }

Depths == (-1)..MaxDepth

VARIABLES
    dataset,        \* the DataSet handed to learn_decision_tree
    target_name,    \* name of the attribute to predict
    feature_names,  \* names of the attributes to split on
    depth_limit,    \* depth at which the tree is cut off
    pc,             \* "ready", "running" or "done"
    stack,          \* frames of decision_tree_learning, innermost last
    ret,            \* the value the innermost finished invocation returned
    entropy_calls,  \* every example list entropy has been invoked on
    result          \* what learn_decision_tree returned

vars == <<dataset, target_name, feature_names, depth_limit, pc, stack, ret,
          entropy_calls, result>>

\* ------------------------------------------------------------ Python lists
\* list.index(x): 0-based position of the first element equal to x.
index(list, x) == (CHOOSE i \in 1..Len(list) :
                      list[i] = x /\ \A j \in 1..(i - 1) : list[j] # x) - 1

\* list.remove(x): the list without its first element equal to x.
remove(list, x) ==
    LET i == index(list, x) + 1
    IN  SubSeq(list, 1, i - 1) \o SubSeq(list, i + 1, Len(list))

\* Mutant of lower: the comparison with "republican" made case-sensitive.
lower_case_sensitive(s) == s

\* str.lower() on the party names that occur in the files.
lower(s) == IF s \in {"Republican", "REPUBLICAN"} THEN "republican" ELSE s

\* ------------------------------------------------------------ Leaf / Node
NoTree == [kind |-> "None"]

Leaf(pred_class) == [kind |-> "Leaf", pred_class |-> pred_class]

Node(test_attr, test_name) ==
    [kind |-> "Node", test_attr |-> test_attr, test_name |-> test_name,
     children |-> <<>>]

add_child(node, val, subtree) ==
    [node EXCEPT !.children = (val :> subtree) @@ @]

RECURSIVE classify(_, _)
classify(tree, example) ==
    IF tree.kind = "Leaf" THEN tree.pred_class
    ELSE LET val == example[tree.test_attr + 1]
         IN  IF val \in DOMAIN tree.children
             THEN classify(tree.children[val], example)
             ELSE "KeyError"

\* --------------------------------------------- closure of learn_decision_tree
target == index(dataset.attributes, target_name)

features == [i \in 1..Len(feature_names) |->
                index(dataset.attributes, feature_names[i])]

\* The republicans / democrats counting loop shared by same_classification,
\* plurality_value and entropy.
republicans(examples) ==
    Cardinality({ i \in 1..Len(examples) :
                    lower(examples[i][target + 1]) = "republican" })

democrats(examples) == Len(examples) - republicans(examples)

split(attribute, examples) ==
    LET yes(exs) == exs[attribute + 1] = "Yea" \/ exs[attribute + 1] = "Present"
        no(exs)  == ~yes(exs)
    IN  <<SelectSeq(examples, yes), SelectSeq(examples, no)>>

\* Mutant of same_classification: the first branch returns the wrong leaf.
same_classification_one_label(examples) ==
    IF republicans(examples) = 0 THEN Leaf("Republicans")
    ELSE IF democrats(examples) = 0 THEN Leaf("Republicans")
    ELSE NoTree

same_classification(examples) ==
    IF republicans(examples) = 0 THEN Leaf("Democrats")
    ELSE IF democrats(examples) = 0 THEN Leaf("Republicans")
    ELSE NoTree

\* Mutant of plurality_value: > for >=, a tie goes to the republicans.
plurality_value_tie_republicans(examples) ==
    IF democrats(examples) > republicans(examples)
    THEN Leaf("Democrats") ELSE Leaf("Republicans")

plurality_value(examples) ==
    IF democrats(examples) >= republicans(examples)
    THEN Leaf("Democrats") ELSE Leaf("Republicans")

\* ------------------------------------------------------- entropy and gain
\* The floating point numbers of entropy and information_gain are kept as
\* exact values: [num, den, total] stands for log2(num / den) / total.  For a
\* list of `total` examples with r republicans and d democrats,
\*   -p_d*log2(p_d) - p_r*log2(p_r) = log2(total^total / (r^r * d^d)) / total
\* and Pow(0, 0) = 1 is the `if p != 0` guard around math.log.
\* Comparing two gains over one parent by these exact values gives what the
\* floating point comparison gives, for every parent of up to 6 examples.
RECURSIVE Pow(_, _)
Pow(b, e) == IF e = 0 THEN 1 ELSE b * Pow(b, e - 1)

Float(num, den, total) == [ok |-> TRUE, num |-> num, den |-> den, total |-> total]

ZeroDivisionError == [ok |-> FALSE, error |-> "ZeroDivisionError"]

\* The value of an expression over local variables, each computed once:
\* the({ e : x \in {v} }) is e with the local x holding the value of v.
the(S) == CHOOSE value \in S : TRUE

entropy(examples) ==
    the({ IF r + d = 0 THEN ZeroDivisionError
          ELSE Float(Pow(r + d, r + d), Pow(r, r) * Pow(d, d), r + d) :
              r \in {republicans(examples)}, d \in {democrats(examples)} })

\* Mutant of entropy_operands: empty children are not skipped.
entropy_operands_unskipped(parent, children) == children \o <<parent>>

\* The example lists information_gain passes to entropy, in call order: the
\* children that are not skipped, then the parent.
entropy_operands(parent, children) ==
    SelectSeq(children, LAMBDA child : Len(child) # 0) \o <<parent>>

\* e_children, then entropy(parent) - e_children, from the entropies `es` of
\* entropy_operands: len(child)/len(parent) * log2(num/den)/len(child) summed
\* over the children is the log2 of the product of their num/den, by len(parent).
RECURSIVE e_children(_, _)
e_children(es, n) ==
    IF n = 0 THEN [num |-> 1, den |-> 1]
    ELSE LET sum == e_children(es, n - 1)
         IN  [num |-> es[n].num * sum.num, den |-> es[n].den * sum.den]

RECURSIVE entropies(_)
entropies(ops) ==
    IF Len(ops) = 0 THEN <<>>
    ELSE <<entropy(Head(ops))>> \o entropies(Tail(ops))

information_gain(parent, children) ==
    the({ IF \E i \in 1..Len(es) : ~es[i].ok THEN ZeroDivisionError
          ELSE LET sum == e_children(es, Len(es) - 1)
               IN  Float(es[Len(es)].num * sum.den, es[Len(es)].den * sum.num,
                         Len(parent)) :
              es \in {entropies(entropy_operands(parent, children))} })

\* x > y and x == y for two gains over the same parent.
greater(x, y) == x.num * y.den > y.num * x.den

equal(x, y) == x.num * y.den = y.num * x.den

\* max(list): the first element that no later element is greater than.
RECURSIVE max(_)
max(list) ==
    IF Len(list) = 1 THEN list[1]
    ELSE LET m == max(SubSeq(list, 1, Len(list) - 1))
         IN  IF greater(list[Len(list)], m) THEN list[Len(list)] ELSE m

\* The list argmax builds: the gain of every attribute, in order.
RECURSIVE entropy_attr(_, _)
entropy_attr(attributes, examples) ==
    IF Len(attributes) = 0 THEN <<>>
    ELSE <<information_gain(examples, split(Head(attributes), examples))>>
             \o entropy_attr(Tail(attributes), examples)

\* Mutant of argmax: the last attribute of maximal gain, not the first.
argmax_last(attributes, examples) ==
    the({ attributes[CHOOSE i \in 1..Len(gains) :
                        /\ \E m \in {max(gains)} : equal(gains[i], m)
                        /\ \A j \in (i + 1)..Len(gains) :
                              \E m \in {max(gains)} : ~equal(gains[j], m)] :
              gains \in {entropy_attr(attributes, examples)} })

\* attributes[entropy_attr.index(max(entropy_attr))]
argmax(attributes, examples) ==
    the({ attributes[CHOOSE i \in 1..Len(gains) :
                        /\ \E m \in {max(gains)} : equal(gains[i], m)
                        /\ \A j \in 1..(i - 1) :
                              \E m \in {max(gains)} : ~equal(gains[j], m)] :
              gains \in {entropy_attr(attributes, examples)} })

\* ------------------------------------------------ decision_tree_learning
Frame(examples, attrs, parent_examples, depth) ==
    [examples |-> examples, attrs |-> attrs,
     parent_examples |-> parent_examples, depth |-> depth,
     A |-> -1, v |-> 0, tree |-> NoTree]

\* A finished invocation: its value, with the arguments it was called with.
Return(frame, value) ==
    [value |-> value, examples |-> frame.examples, attrs |-> frame.attrs,
     parent_examples |-> frame.parent_examples, depth |-> frame.depth]

NoReturn == Return(Frame(<<>>, <<>>, <<>>, 0), NoTree)

\* Mutant of callee: the chosen attribute is not removed from the candidates.
callee_keeps_attrs(frame, v) ==
    Frame(split(frame.A, frame.examples)[v + 1], frame.attrs,
          frame.examples, frame.depth - 1)

\* Mutant of callee: the depth is passed on as it is.
callee_keeps_depth(frame, v) ==
    Frame(split(frame.A, frame.examples)[v + 1], remove(frame.attrs, frame.A),
          frame.examples, frame.depth)

\* The invocation made by pass v of the loop of a frame that tests A.
callee(frame, v) ==
    Frame(split(frame.A, frame.examples)[v + 1], remove(frame.attrs, frame.A),
          frame.examples, frame.depth - 1)

Top == stack[Len(stack)]
Pop == SubSeq(stack, 1, Len(stack) - 1)

Error(name) == [kind |-> "Error", error |-> name]

\* Before the call: no file has been read, nothing has been returned.
NoDataSet == [attributes |-> <<>>, examples |-> <<>>]

Init ==
    /\ dataset = NoDataSet
    /\ target_name = ""
    /\ feature_names = <<>>
    /\ depth_limit = 0
    /\ pc = "ready"
    /\ stack = <<>>
    /\ ret = NoReturn
    /\ entropy_calls = {}
    /\ result = NoTree

inputs == <<dataset, target_name, feature_names, depth_limit>>

\* learn_decision_tree(dataset, target_name, feature_names, depth_limit), up
\* to its call of decision_tree_learning.
learn_decision_tree ==
    /\ pc = "ready"
    /\ dataset' \in DataSets
    /\ target_name' = "class"
    /\ feature_names' \in
          SeqsUpTo(Range(dataset'.attributes) \ {"class"}, MaxFeatures)
    /\ depth_limit' \in Depths
    /\ pc' = "running"
    /\ stack' = <<Frame(dataset'.examples, features', <<>>, depth_limit')>>
    /\ UNCHANGED <<ret, entropy_calls, result>>

\* An invocation that has just been entered.
Entered ==
    /\ pc = "running"
    /\ stack # <<>>
    /\ Top.tree.kind = "None"

ReturnLeaf(leaf) ==
    /\ ret' = Return(Top, leaf)
    /\ stack' = Pop
    /\ UNCHANGED <<inputs, pc, entropy_calls, result>>

DepthLimit ==
    /\ Entered
    /\ Top.depth = 0
    /\ ReturnLeaf(plurality_value(Top.examples))

\* Mutant of NoExamples: the test for no examples comes before the depth test.
NoExamples_first ==
    /\ Entered
    /\ Len(Top.examples) = 0
    /\ ReturnLeaf(plurality_value(Top.parent_examples))

NoExamples ==
    /\ Entered
    /\ Top.depth # 0
    /\ Len(Top.examples) = 0
    /\ ReturnLeaf(plurality_value(Top.parent_examples))

SameClass ==
    /\ Entered
    /\ Top.depth # 0
    /\ Len(Top.examples) # 0
    /\ same_classification(Top.examples).kind # "None"
    /\ ReturnLeaf(same_classification(Top.examples))

NoAttrs ==
    /\ Entered
    /\ Top.depth # 0
    /\ Len(Top.examples) # 0
    /\ same_classification(Top.examples).kind = "None"
    /\ Len(Top.attrs) = 0
    /\ ReturnLeaf(plurality_value(Top.examples))

\* A raised exception ends the program.
Raise(name) ==
    /\ pc' = "done"
    /\ result' = Error(name)
    /\ UNCHANGED <<inputs, stack, ret>>

\* The recursive call of pass v of the loop of `frame`, the innermost frame.
Recurse(frame, v) ==
    IF Len(stack) >= MaxStack
    THEN Raise("RecursionError")
    ELSE /\ stack' = Append(Pop, frame) \o <<callee(frame, v)>>
         /\ ret' = NoReturn
         /\ UNCHANGED <<inputs, pc, result>>

Split ==
    /\ Entered
    /\ Top.depth # 0
    /\ Len(Top.examples) # 0
    /\ same_classification(Top.examples).kind = "None"
    /\ Len(Top.attrs) # 0
    /\ entropy_calls' = entropy_calls \cup
           UNION { Range(entropy_operands(Top.examples, split(a, Top.examples))) :
                       a \in Range(Top.attrs) }
    /\ \E gains \in {entropy_attr(Top.attrs, Top.examples)} :
           IF \E i \in 1..Len(gains) : ~gains[i].ok
           THEN Raise("ZeroDivisionError")
           ELSE \E A \in {argmax(Top.attrs, Top.examples)} :
                \E tree \in {Node(A, "vote" \o ToString(A))} :
                    Recurse([Top EXCEPT !.A = A, !.v = 0, !.tree = tree], 0)

\* The recursive call of a pass of the loop has returned.
Returned(v) ==
    /\ pc = "running"
    /\ stack # <<>>
    /\ Top.tree.kind = "Node"
    /\ Top.v = v
    /\ ret.value.kind # "None"

AddYea ==
    /\ Returned(0)
    /\ Recurse([Top EXCEPT !.tree = add_child(@, "Yea", ret.value), !.v = 1], 1)
    /\ UNCHANGED entropy_calls

\* Mutant of AddNay: the second subtree is added under "Yea" as well.
AddNay_under_yea ==
    /\ Returned(1)
    /\ ret' = Return(Top, add_child(Top.tree, "Yea", ret.value))
    /\ stack' = Pop
    /\ UNCHANGED <<inputs, pc, entropy_calls, result>>

AddNay ==
    /\ Returned(1)
    /\ ret' = Return(Top, add_child(Top.tree, "Nay", ret.value))
    /\ stack' = Pop
    /\ UNCHANGED <<inputs, pc, entropy_calls, result>>

Finish ==
    /\ pc = "running"
    /\ stack = <<>>
    /\ pc' = "done"
    /\ result' = ret.value
    /\ UNCHANGED <<inputs, stack, ret, entropy_calls>>

Next ==
    \/ learn_decision_tree
    \/ DepthLimit
    \/ NoExamples
    \/ SameClass
    \/ NoAttrs
    \/ Split
    \/ AddYea
    \/ AddNay
    \/ Finish

Spec == Init /\ [][Next]_vars

FairSpec == Spec /\ WF_vars(Next)

\* ===================================================================
\* Properties
\* ===================================================================
Done == pc = "done"

IsTree(t) == t.kind \in {"Leaf", "Node"}

\* The binarized class of an example: the target matches "republican" in any
\* capitalisation that occurs in the files, or it does not.
IsRepublican(example) ==
    example[target + 1] \in {"republican", "Republican", "REPUBLICAN"}

NumRepublican(examples) ==
    Cardinality({ i \in 1..Len(examples) : IsRepublican(examples[i]) })

\* Republicans iff strictly more examples are republican than not.
PluralityClass(examples) ==
    IF NumRepublican(examples) > Len(examples) - NumRepublican(examples)
    THEN "Republicans" ELSE "Democrats"

\* C1: every training example is classified, without a lookup error, as the
\* leaf of the partition that split placed it in at each node on its path.
RoundTrip ==
    LET RECURSIVE TrainingLeaf(_, _)
        TrainingLeaf(tree, e) ==
            IF tree.kind = "Leaf" THEN tree.pred_class
            ELSE IF split(tree.test_attr, <<e>>)[1] # <<>>
                 THEN TrainingLeaf(tree.children["Yea"], e)
                 ELSE TrainingLeaf(tree.children["Nay"], e)
    IN  (Done /\ IsTree(result)) =>
            \A e \in Range(dataset.examples) :
                /\ classify(result, e) # "KeyError"
                /\ classify(result, e) = TrainingLeaf(result, e)

Scenario ==
    /\ dataset = ScenarioDataSet
    /\ feature_names = <<"voteX">>
    /\ depth_limit >= 1
    /\ Done

\* C2 as stated: on the scenario the tree tests voteX, with Leaf("Republicans")
\* under "Yea" and Leaf("Democrats") under "Nay".
ScenarioPureLeaves ==
    Scenario =>
        /\ result.kind = "Node"
        /\ result.test_attr = 0
        /\ DOMAIN result.children = {"Yea", "Nay"}
        /\ result.children["Yea"] = Leaf("Republicans")
        /\ result.children["Nay"] = Leaf("Democrats")

\* C2 as amended: on the scenario the tree tests voteX and both children are
\* Leaf("Democrats"), each side of the split being a 1-1 tie.
ScenarioTiedLeaves ==
    Scenario =>
        /\ result.kind = "Node"
        /\ result.test_attr = 0
        /\ DOMAIN result.children = {"Yea", "Nay"}
        /\ result.children["Yea"] = Leaf("Democrats")
        /\ result.children["Nay"] = Leaf("Democrats")

ScenarioReached == Scenario /\ result.kind = "Node"

\* C3: with depth_limit = 0 a non-empty dataset yields the plurality leaf of
\* all its examples, Democrats on a tie, whatever the feature list.
DepthZeroPlurality ==
    (Done /\ depth_limit = 0 /\ dataset.examples # <<>>) =>
        result = Leaf(PluralityClass(dataset.examples))

\* depth 0, two candidate features, a tie between the classes with one party
\* capitalised.
DepthZeroTie ==
    /\ Done
    /\ depth_limit = 0
    /\ Len(feature_names) = 2
    /\ Len(dataset.examples) = 2
    /\ NumRepublican(dataset.examples) = 1
    /\ \E e \in Range(dataset.examples) : e[target + 1] = "Republican"
    /\ result = Leaf("Democrats")

\* C4: a non-empty dataset of a single binarized class yields one Leaf of
\* that class, for every depth limit and feature list.
SingleClassLeaf ==
    (Done /\ dataset.examples # <<>>) =>
        /\ (\A e \in Range(dataset.examples) : IsRepublican(e))
               => result = Leaf("Republicans")
        /\ (\A e \in Range(dataset.examples) : ~IsRepublican(e))
               => result = Leaf("Democrats")

\* all republican, votes differing, features to split on, past the depth rule
SingleClassReached ==
    /\ Done
    /\ depth_limit # 0
    /\ Len(feature_names) = 2
    /\ Len(dataset.examples) = 3
    /\ \A e \in Range(dataset.examples) : IsRepublican(e)
    /\ \E e, f \in Range(dataset.examples) : e[1] # f[1]
    /\ result = Leaf("Republicans")

\* C5: every node of a returned tree has exactly the children "Yea" and
\* "Nay", each a Node or a Leaf, also where a side of the split is empty.
TwoChildren ==
    LET RECURSIVE Binary(_)
        Binary(tree) ==
            \/ tree.kind = "Leaf"
            \/ /\ tree.kind = "Node"
               /\ DOMAIN tree.children = {"Yea", "Nay"}
               /\ \A val \in {"Yea", "Nay"} : Binary(tree.children[val])
    IN  /\ (ret.value.kind # "None") => Binary(ret.value)
        /\ Done => Binary(result)

\* a returned node one side of whose split was empty
EmptySideNode ==
    /\ Done
    /\ result.kind = "Node"
    /\ \E v \in 1..2 : split(result.test_attr, dataset.examples)[v] = <<>>

\* C6: every recursive call is made with the depth decreased by one and a
\* candidate list one element shorter, and induction returns a tree.
CallsDecrease ==
    \A i \in 1..(Len(stack) - 1) :
        /\ stack[i + 1].depth = stack[i].depth - 1
        /\ Len(stack[i + 1].attrs) = Len(stack[i].attrs) - 1

Terminates == []CallsDecrease /\ <>(Done /\ IsTree(result))

\* a run with a negative depth limit that ended in a tree of two levels
NegativeDepthDone ==
    /\ Done
    /\ depth_limit < 0
    /\ result.kind = "Node"
    /\ \E val \in {"Yea", "Nay"} : result.children[val].kind = "Node"

\* C7: with depth_limit d >= 0 and k candidates no path of the tree has more
\* than min(d, k) nodes, and with no candidates the tree is the plurality leaf.
DepthCutOff ==
    LET RECURSIVE Height(_)
        Height(tree) ==
            IF tree.kind = "Leaf" THEN 0
            ELSE LET y == Height(tree.children["Yea"])
                     n == Height(tree.children["Nay"])
                 IN  1 + (IF y > n THEN y ELSE n)
        k == Len(feature_names)
    IN  (Done /\ IsTree(result) /\ depth_limit >= 0) =>
            /\ Height(result) <= (IF depth_limit < k THEN depth_limit ELSE k)
            /\ k = 0 => result = Leaf(PluralityClass(dataset.examples))

\* the depth limit, smaller than the number of candidates, cut a mixed branch
CutOffReached ==
    /\ Done
    /\ depth_limit = 1
    /\ Len(feature_names) = 2
    /\ result.kind = "Node"
    /\ \E v \in 1..2 :
          same_classification(
              split(result.test_attr, dataset.examples)[v]).kind = "None"

\* C8: a frame that builds a node was entered with depth # 0, both classes and
\* candidates; the attribute it tests is the first candidate of maximal
\* information gain; its recursive calls get the candidates without that one.
Gain(frame, a) == information_gain(frame.examples, split(a, frame.examples))

FirstBest(frame, i) ==
    /\ \A j \in 1..Len(frame.attrs) :
          ~greater(Gain(frame, frame.attrs[j]), Gain(frame, frame.attrs[i]))
    /\ \A j \in 1..(i - 1) :
          greater(Gain(frame, frame.attrs[i]), Gain(frame, frame.attrs[j]))

Without(list, i) == [j \in 1..(Len(list) - 1) |->
                        IF j < i THEN list[j] ELSE list[j + 1]]

BestAttributeTested ==
    \A n \in 1..Len(stack) :
        LET frame == stack[n]
        IN  frame.tree.kind = "Node" =>
              /\ frame.depth # 0
              /\ NumRepublican(frame.examples) \notin {0, Len(frame.examples)}
              /\ \E i \in 1..Len(frame.attrs) :
                    /\ frame.attrs[i] = frame.A
                    /\ frame.tree.test_attr = frame.A
                    /\ FirstBest(frame, i)
                    /\ n < Len(stack) =>
                          stack[n + 1].attrs = Without(frame.attrs, i)
                    /\ (n = Len(stack) /\ ret.value.kind # "None") =>
                          ret.attrs = Without(frame.attrs, i)

\* two different candidates of equal gain, a third of the examples on one
\* side: the first is tested and the second call has returned
TieBrokenByOrder ==
    /\ stack # <<>>
    /\ Top.tree.kind = "Node"
    /\ Top.v = 1
    /\ ret.value.kind # "None"
    /\ Len(Top.attrs) = 2
    /\ Top.attrs[1] # Top.attrs[2]
    /\ Top.A = Top.attrs[1]
    /\ equal(Gain(Top, Top.attrs[1]), Gain(Top, Top.attrs[2]))
    /\ Gain(Top, Top.A).num # Gain(Top, Top.A).den

\* C9: an invocation on no examples returns the plurality leaf of its parent
\* examples when its depth is not 0, and Leaf("Democrats") when it is 0.
EmptyExamplesRule ==
    (ret.value.kind # "None" /\ ret.examples = <<>>) =>
        IF ret.depth = 0
        THEN ret.value = Leaf("Democrats")
        ELSE ret.value = Leaf(PluralityClass(ret.parent_examples))

\* depth 0 on no examples under a parent whose plurality is Republicans
DepthRuleWins ==
    /\ ret.value.kind # "None"
    /\ ret.examples = <<>>
    /\ ret.depth = 0
    /\ PluralityClass(ret.parent_examples) = "Republicans"
    /\ ret.value = Leaf("Democrats")

\* C10: entropy is never invoked on an empty example list and induction never
\* ends in a division by zero.
EntropyNeverEmpty ==
    /\ \A examples \in entropy_calls : Len(examples) > 0
    /\ result.kind # "Error"

\* information_gain met an empty partition
EmptyPartitionSkipped ==
    /\ entropy_calls # {}
    /\ stack # <<>>
    /\ Top.tree.kind = "Node"
    /\ \E v \in 1..2 : split(Top.A, Top.examples)[v] = <<>>

=============================================================================
